---- MODULE Spec2Model ----
(***************************************************************************)
(* The duplex audio bridge of personaplex-ai-caller.                       *)
(*                                                                         *)
(* Two implementations of the bridge are modelled side by side:            *)
(*   - bridge.py: bridge_handler, the active_calls registry and the        *)
(*     CallBridge class (handle, _plivo_to_persona, _persona_to_plivo);    *)
(*   - orchestrator.py: the bridge_websocket endpoint with its two nested  *)
(*     coroutines plivo_to_persona and persona_to_plivo.                   *)
(*                                                                         *)
(* A session is one telephony connection and the coroutine that serves it. *)
(* Every action is the code between two await points of that coroutine     *)
(* (asyncio runs a coroutine without interruption until it awaits).        *)
(* What the peers do (messages arriving, connections closing) is the       *)
(* environment: it is chosen with \E inside the receive that observes it,  *)
(* or by the two disconnect actions.                                       *)
(*                                                                         *)
(* The audio conversions (the mu-law codec and the resamplers) are pure    *)
(* functions; they are operators here, applied to every input by the       *)
(* specification CodecSpec.                                                *)
(***************************************************************************)
EXTENDS Integers, Sequences, FiniteSets, TLC

\* Bound: messages delivered to the pumps, over all sessions and directions.
MaxMsgs == 3

\* The connection slots of the model; each serves one call.
Sessions == {"s1", "s2"}

\* The value of start.callId in a stream's first message; "unknown" is the
\* default of bridge.py:187 and orchestrator.py:92 when it is absent.
CallIds == {"abc123", "unknown"}

None == "None"

\* The first telephony message: a start event with a callId, one without, a
\* message json.loads or .get rejects.
FirstMsgs == {"start_abc123", "start_noid", "malformed"}

\* Telephony messages a pump receives after the first one.
\*   media    a media event with a payload that decodes
\*   badmedia a media event without payload, or one base64 rejects
\*   badjson  a text json.loads rejects
\*   start    a start event after the first message
\*   dtmf     a dtmf event, or an event of any type the code does not name
\*   stop     the stop event
TelKinds == {"media", "badmedia", "badjson", "start", "dtmf", "stop"}

\* Backend messages a pump receives.
\*   audio  a message the pump converts: in bridge.py non-empty bytes of even
\*          length, in orchestrator.py 0x01 and an Opus payload
\*   bad    a message the conversion rejects: in bridge.py non-empty bytes of
\*          odd length (np.frombuffer for int16 raises), in orchestrator.py
\*          0x01 and a payload the Opus reader rejects
\*   empty  the empty bytes message
\*   text   a text message
\* and, told apart by orchestrator.py only (to bridge.py they are bytes of
\* even or of odd length, that is audio or bad):
\*   x00    the control byte 0x00
\*   x01    the byte 0x01 with no payload
\*   prefix bytes that start with another byte than 0x00 and 0x01
BackendKinds == {"audio", "bad", "empty", "text", "x00", "x01", "prefix"}

\* The classes of backend messages that bridge.py tells apart.
BridgeBackendKinds == {"audio", "bad", "empty", "text"}

\* The backend's first message, read by bridge_websocket as the handshake.
HandshakeMsgs == {"x00", "x01audio", "text"}

VARIABLES
    impl,          \* which service accepted the stream: "bridge", "orch", None
    hpc,           \* position of the handler coroutine
    call_id,       \* call_id of the session
    first_msg,     \* history: the first telephony message the handler read
    running,       \* the shared running flag
    persona_ws,    \* backend connection: None, "open", "closedOK",
                   \* "closedErr" (closed by the peer), "closed" (by close())
    plivo_ws,      \* telephony connection: "open", "closedOK", "closedErr"
    p2b,           \* position of the telephony -> backend pump: "idle",
                   \* "recv" (awaiting a message), "loop", or how it ended
    b2p,           \* position of the backend -> telephony pump, likewise
    handshake,     \* orchestrator.py: what the handshake read was
    active_calls,  \* bridge.py: the registry, call id -> session
    recvT,         \* history: kinds of the telephony messages a pump received
    recvB,         \* history: kinds of the backend messages a pump received
    toPersona,     \* history: sends to the backend, each the index in recvT
                   \* of the media event it forwards
    toPlivo,       \* history: playAudio sends, each the index in recvB
    opus_writer,   \* orchestrator.py: the Opus writer holds samples that
                   \* read_bytes has not returned yet
    opus_reader,   \* orchestrator.py: the Opus reader holds data that
                   \* read_pcm has not returned yet
    wire,          \* history: the messages sent to the backend, each the
                   \* sequence of its parts
    closeCalls,    \* history: calls of persona_ws.close()
    popCalls,      \* history: calls of active_calls.pop(call_id, None)
    cpc,           \* audio conversion: which function has been applied
    codec_in,      \* audio conversion: the input, a sample or a frame
    mulaw_byte,    \* audio conversion: the byte mulaw_encode returned
    codec_out      \* audio conversion: the result

vars == <<impl, hpc, call_id, first_msg, running, persona_ws, plivo_ws, p2b,
          b2p, handshake, active_calls, recvT, recvB, toPersona, toPlivo,
          wire, closeCalls, popCalls, opus_writer, opus_reader, cpc,
          codec_in, mulaw_byte, codec_out>>

conn == <<persona_ws, plivo_ws>>
hist == <<recvT, recvB, toPersona, toPlivo, wire>>
codec == <<cpc, codec_in, mulaw_byte, codec_out>>
opus == <<opus_writer, opus_reader>>
session == <<impl, hpc, call_id, first_msg, running, conn, p2b, b2p, handshake,
             active_calls, hist, closeCalls, popCalls, opus>>

RECURSIVE SumLen(_, _)
SumLen(f, S) ==
    IF S = {} THEN 0
    ELSE LET s == CHOOSE x \in S : TRUE
         IN  Len(f[s]) + SumLen(f, S \ {s})

\* Messages delivered so far; receives are cut off at MaxMsgs.
Delivered == SumLen(recvT, Sessions) + SumLen(recvB, Sessions)
MayDeliver == Delivered < MaxMsgs

\* No stream has been accepted.
NoSession ==
    /\ impl = [s \in Sessions |-> None]
    /\ hpc = [s \in Sessions |-> "idle"]
    /\ call_id = [s \in Sessions |-> None]
    /\ first_msg = [s \in Sessions |-> None]
    /\ running = [s \in Sessions |-> FALSE]
    /\ persona_ws = [s \in Sessions |-> None]
    /\ plivo_ws = [s \in Sessions |-> "open"]
    /\ p2b = [s \in Sessions |-> "idle"]
    /\ b2p = [s \in Sessions |-> "idle"]
    /\ handshake = [s \in Sessions |-> None]
    /\ active_calls = [c \in CallIds |-> None]
    /\ recvT = [s \in Sessions |-> <<>>]
    /\ recvB = [s \in Sessions |-> <<>>]
    /\ toPersona = [s \in Sessions |-> <<>>]
    /\ toPlivo = [s \in Sessions |-> <<>>]
    /\ wire = [s \in Sessions |-> <<>>]
    /\ closeCalls = [s \in Sessions |-> 0]
    /\ popCalls = [s \in Sessions |-> 0]
    /\ opus_writer = [s \in Sessions |-> FALSE]
    /\ opus_reader = [s \in Sessions |-> FALSE]

\* The services at start: no stream, no conversion under way.
Init ==
    /\ NoSession
    /\ cpc = "idle"
    /\ codec_in = None
    /\ mulaw_byte = None
    /\ codec_out = None

----------------------------------------------------------------------------
(* Helpers shared by both services *)

\* data.get("start", {}).get("callId", "unknown")
CallIdOf(m) == IF m = "start_abc123" THEN "abc123" ELSE "unknown"

\* persona_ws and persona_ws.open
PersonaOpen(s) == persona_ws[s] = "open"

\* How a pump ends. It returns through
\*   break_flag    "if not running: break"
\*   break_stop    the break after a stop event
\*   while_end     "while running" found the flag cleared
\*   eof           the "async for" ended with the connection
\*   except_closed the receive raised and the pump caught it
\*   except_frame  a decode or encode error of one frame, caught
\*   except_send   a failed send, caught
\* or it is left by an exception:
\*   raised        the "async for" over plivo_ws raised ConnectionClosedError
Returned == {"break_flag", "break_stop", "while_end", "eof", "except_closed",
             "except_frame", "except_send"}
Ended == Returned \cup {"raised"}

\* What bridge.py sends for a media event: pcm_24k, the bytes returned by
\* plivo_to_personaplex, as they are.
bridge_frame == <<"pcm_24k">>

\* What orchestrator.py sends for a media event: b"\x01" + opus_bytes.
orch_frame == <<"x01", "opus_bytes">>

\* A dispatch that takes an event it does not name for the end of the stream.
StopOrUnknownEvent(k) == k \in {"stop", "dtmf"}

\* event == "stop"
StopEvent(k) == k = "stop"

\* A send that jumps the queue: the message overtakes those sent before it.
SendFirst(sent, m) == <<m>> \o sent

\* A send that goes out twice.
SendTwice(sent, m) == Append(Append(sent, m), m)

\* ws.send(m): the message is appended to what the peer receives.
Send(sent, m) == Append(sent, m)

\* A registration that stores nothing.
RegisterNothing(reg, id, s) == reg

\* active_calls[call_id] = bridge
Register(reg, id, s) == [reg EXCEPT ![id] = s]

\* A teardown that leaves the entry in the registry.
PopNothing(reg, id) == reg

\* active_calls.pop(call_id, None)
Pop(reg, id) == [reg EXCEPT ![id] = None]

----------------------------------------------------------------------------
(* bridge.py *)

\* websockets.serve(bridge_handler, ...) starts bridge_handler for a stream.
start_bridge(s) ==
    /\ hpc[s] = "idle"
    /\ impl' = [impl EXCEPT ![s] = "bridge"]
    /\ hpc' = [hpc EXCEPT ![s] = "first"]
    /\ UNCHANGED <<call_id, first_msg, running, conn, p2b, b2p, handshake,
                   active_calls, hist, closeCalls, popCalls>>
    /\ UNCHANGED <<opus, codec>>

\* bridge_handler up to the first await of handle: the first message is read
\* and parsed, the bridge is registered under its call id, handle sets running
\* and starts to connect. A message json.loads rejects, or a connection that
\* closed before its first message, raises out of bridge_handler before
\* anything is registered.
bridge_handler(s) ==
    /\ impl[s] = "bridge" /\ hpc[s] = "first"
    /\ \/ /\ plivo_ws[s] = "open"
          /\ \E m \in FirstMsgs :
               /\ first_msg' = [first_msg EXCEPT ![s] = m]
               /\ IF m = "malformed"
                  THEN /\ hpc' = [hpc EXCEPT ![s] = "done"]
                       /\ UNCHANGED <<call_id, active_calls, running>>
                  ELSE /\ call_id' = [call_id EXCEPT ![s] = CallIdOf(m)]
                       /\ active_calls' =
                             Register(active_calls, CallIdOf(m), s)
                       /\ running' = [running EXCEPT ![s] = TRUE]
                       /\ hpc' = [hpc EXCEPT ![s] = "connect"]
       \/ /\ plivo_ws[s] # "open"
          /\ hpc' = [hpc EXCEPT ![s] = "done"]
          /\ UNCHANGED <<call_id, first_msg, active_calls, running>>
    /\ UNCHANGED <<impl, conn, p2b, b2p, handshake, hist, closeCalls, popCalls>>
    /\ UNCHANGED <<opus, codec>>

\* A finally block that never closes the backend connection.
FinallyNeverCloses(pws) == FALSE

\* if self.persona_ws: await self.persona_ws.close()
FinallyCloses(pws) == pws # None

\* A handle that awaits one pump after the other: the backend pump is not
\* started while the telephony pump runs.
handle_connect_sequential(s) ==
    /\ impl[s] = "bridge" /\ hpc[s] = "connect"
    /\ \/ /\ persona_ws' = [persona_ws EXCEPT ![s] = "open"]
          /\ hpc' = [hpc EXCEPT ![s] = "gather"]
          /\ p2b' = [p2b EXCEPT ![s] = "recv"]
          /\ UNCHANGED <<b2p, running, active_calls, closeCalls, popCalls>>
       \/ /\ running' = [running EXCEPT ![s] = FALSE]
          /\ active_calls' = Pop(active_calls, call_id[s])
          /\ popCalls' = [popCalls EXCEPT ![s] = @ + 1]
          /\ hpc' = [hpc EXCEPT ![s] = "done"]
          /\ UNCHANGED <<persona_ws, p2b, b2p, closeCalls>>
    /\ UNCHANGED <<impl, call_id, first_msg, plivo_ws, handshake, hist>>
    /\ UNCHANGED <<opus, codec>>

\* A connect whose failure leaves the call id in the registry.
handle_connect_keeps_entry(s) ==
    /\ impl[s] = "bridge" /\ hpc[s] = "connect"
    /\ \/ /\ persona_ws' = [persona_ws EXCEPT ![s] = "open"]
          /\ hpc' = [hpc EXCEPT ![s] = "gather"]
          /\ p2b' = [p2b EXCEPT ![s] = "recv"]
          /\ b2p' = [b2p EXCEPT ![s] = "recv"]
          /\ UNCHANGED <<running, active_calls, closeCalls, popCalls>>
       \/ /\ running' = [running EXCEPT ![s] = FALSE]
          /\ hpc' = [hpc EXCEPT ![s] = "done"]
          /\ UNCHANGED <<persona_ws, p2b, b2p, active_calls, closeCalls,
                         popCalls>>
    /\ UNCHANGED <<impl, call_id, first_msg, plivo_ws, handshake, hist>>
    /\ UNCHANGED <<opus, codec>>

\* CallBridge.handle, websockets.connect returning. Connected: both pumps are
\* started by asyncio.gather. Failed: the exception is caught, the finally
\* block clears running, there is no connection to close, handle returns and
\* bridge_handler's finally pops the call id (no await in between).
handle_connect(s) ==
    /\ impl[s] = "bridge" /\ hpc[s] = "connect"
    /\ \/ /\ persona_ws' = [persona_ws EXCEPT ![s] = "open"]
          /\ hpc' = [hpc EXCEPT ![s] = "gather"]
          /\ p2b' = [p2b EXCEPT ![s] = "recv"]
          /\ b2p' = [b2p EXCEPT ![s] = "recv"]
          /\ UNCHANGED <<running, active_calls, closeCalls, popCalls>>
       \/ /\ running' = [running EXCEPT ![s] = FALSE]
          /\ closeCalls' = [closeCalls EXCEPT ![s] =
                              IF FinallyCloses(persona_ws[s]) THEN @ + 1 ELSE @]
          /\ active_calls' = Pop(active_calls, call_id[s])
          /\ popCalls' = [popCalls EXCEPT ![s] = @ + 1]
          /\ hpc' = [hpc EXCEPT ![s] = "done"]
          /\ UNCHANGED <<persona_ws, p2b, b2p>>
    /\ UNCHANGED <<impl, call_id, first_msg, plivo_ws, handshake, hist>>
    /\ UNCHANGED <<opus, codec>>

\* CallBridge._plivo_to_persona, one iteration of "async for message in
\* plivo_ws" with a message. The send is guarded by persona_ws.open; a send
\* that fails because the connection breaks under it raises inside the try of
\* the loop body, like every decode error, and the loop goes on.
CallBridge_plivo_to_persona(s) ==
    /\ impl[s] = "bridge" /\ p2b[s] = "recv"
    /\ plivo_ws[s] = "open" /\ MayDeliver
    /\ \E k \in TelKinds :
         /\ recvT' = [recvT EXCEPT ![s] = Append(@, k)]
         /\ IF ~running[s]
            THEN /\ p2b' = [p2b EXCEPT ![s] = "break_flag"]
                 /\ UNCHANGED <<running, persona_ws, toPersona, wire>>
            ELSE CASE k = "media" ->
                        /\ IF PersonaOpen(s)
                           THEN \/ /\ toPersona' = [toPersona EXCEPT ![s] =
                                          Send(@, Len(recvT'[s]))]
                                   /\ wire' = [wire EXCEPT ![s] =
                                          Send(@, bridge_frame)]
                                   /\ UNCHANGED persona_ws
                                \/ /\ persona_ws' =
                                          [persona_ws EXCEPT ![s] = "closedErr"]
                                   /\ UNCHANGED <<toPersona, wire>>
                           ELSE UNCHANGED <<persona_ws, toPersona, wire>>
                        /\ UNCHANGED <<p2b, running>>
                   [] StopEvent(k) ->
                        /\ running' = [running EXCEPT ![s] = FALSE]
                        /\ p2b' = [p2b EXCEPT ![s] = "break_stop"]
                        /\ UNCHANGED <<persona_ws, toPersona, wire>>
                   [] OTHER ->
                        UNCHANGED <<p2b, running, persona_ws, toPersona,
                                   wire>>
    /\ UNCHANGED <<impl, hpc, call_id, first_msg, plivo_ws, b2p, handshake,
                   active_calls, recvB, toPlivo, closeCalls, popCalls>>
    /\ UNCHANGED <<opus, codec>>

\* CallBridge._plivo_to_persona, the iteration over a closed telephony
\* connection: a normal closure ends the loop; an abnormal one raises
\* ConnectionClosedError from the "async for", outside the try of the body,
\* so it leaves the pump and asyncio.gather.
CallBridge_plivo_to_persona_closed(s) ==
    /\ impl[s] = "bridge" /\ p2b[s] = "recv"
    /\ plivo_ws[s] # "open"
    /\ p2b' = [p2b EXCEPT ![s] =
                  IF plivo_ws[s] = "closedOK" THEN "eof" ELSE "raised"]
    /\ UNCHANGED <<impl, hpc, call_id, first_msg, running, conn, b2p,
                   handshake, active_calls, hist, closeCalls, popCalls>>
    /\ UNCHANGED <<opus, codec>>

\* CallBridge._persona_to_plivo, one iteration with a message. The try is
\* around the whole loop: a conversion error or a failed send ends the pump.
CallBridge_persona_to_plivo(s) ==
    /\ impl[s] = "bridge" /\ b2p[s] = "recv"
    /\ persona_ws[s] = "open" /\ MayDeliver
    /\ \E k \in BridgeBackendKinds :
         /\ recvB' = [recvB EXCEPT ![s] = Append(@, k)]
         /\ IF ~running[s]
            THEN /\ b2p' = [b2p EXCEPT ![s] = "break_flag"]
                 /\ UNCHANGED toPlivo
            ELSE CASE k = "audio" ->
                        IF plivo_ws[s] = "open"
                        THEN /\ toPlivo' = [toPlivo EXCEPT ![s] =
                                               Send(@, Len(recvB'[s]))]
                             /\ UNCHANGED b2p
                        ELSE /\ b2p' = [b2p EXCEPT ![s] = "except_send"]
                             /\ UNCHANGED toPlivo
                   [] k = "bad" ->
                        /\ b2p' = [b2p EXCEPT ![s] = "except_frame"]
                        /\ UNCHANGED toPlivo
                   [] OTHER -> UNCHANGED <<b2p, toPlivo>>
    /\ UNCHANGED <<impl, hpc, call_id, first_msg, running, conn, p2b,
                   handshake, active_calls, recvT, toPersona, wire,
                   closeCalls, popCalls>>
    /\ UNCHANGED <<opus, codec>>

\* CallBridge._persona_to_plivo over a closed backend connection: the loop
\* ends, or ConnectionClosed is caught and logged; the pump returns.
CallBridge_persona_to_plivo_closed(s) ==
    /\ impl[s] = "bridge" /\ b2p[s] = "recv"
    /\ persona_ws[s] \notin {None, "open"}
    /\ b2p' = [b2p EXCEPT ![s] =
                  IF persona_ws[s] = "closedErr" THEN "except_closed" ELSE "eof"]
    /\ UNCHANGED <<impl, hpc, call_id, first_msg, running, conn, p2b,
                   handshake, active_calls, hist, closeCalls, popCalls>>
    /\ UNCHANGED <<opus, codec>>

\* asyncio.gather returns when both pumps have returned, and raises as soon
\* as one pump raises (the other pump keeps running as a task).
GatherOver(s) ==
    p2b[s] = "raised" \/ (p2b[s] \in Returned /\ b2p[s] \in Returned)

\* CallBridge.handle, the except and finally blocks after the gather:
\* running is cleared and persona_ws.close() is awaited.
handle_finally(s) ==
    /\ impl[s] = "bridge" /\ hpc[s] = "gather"
    /\ GatherOver(s)
    /\ running' = [running EXCEPT ![s] = FALSE]
    /\ IF FinallyCloses(persona_ws[s])
       THEN /\ persona_ws' = [persona_ws EXCEPT ![s] = "closed"]
            /\ closeCalls' = [closeCalls EXCEPT ![s] = @ + 1]
       ELSE UNCHANGED <<persona_ws, closeCalls>>
    /\ hpc' = [hpc EXCEPT ![s] = "closing"]
    /\ UNCHANGED <<impl, call_id, first_msg, plivo_ws, p2b, b2p, handshake,
                   active_calls, hist, popCalls>>
    /\ UNCHANGED <<opus, codec>>

\* bridge_handler's finally, once handle has returned.
bridge_handler_finally(s) ==
    /\ impl[s] = "bridge" /\ hpc[s] = "closing"
    /\ active_calls' = Pop(active_calls, call_id[s])
    /\ popCalls' = [popCalls EXCEPT ![s] = @ + 1]
    /\ hpc' = [hpc EXCEPT ![s] = "done"]
    /\ UNCHANGED <<impl, call_id, first_msg, running, conn, p2b, b2p,
                   handshake, hist, closeCalls>>
    /\ UNCHANGED <<opus, codec>>

----------------------------------------------------------------------------
(* orchestrator.py *)

\* @app.websocket("/bridge"): bridge_websocket accepts the stream; running
\* starts True, persona_ws None, call_id "unknown".
bridge_websocket(s) ==
    /\ hpc[s] = "idle"
    /\ impl' = [impl EXCEPT ![s] = "orch"]
    /\ hpc' = [hpc EXCEPT ![s] = "first"]
    /\ running' = [running EXCEPT ![s] = TRUE]
    /\ call_id' = [call_id EXCEPT ![s] = "unknown"]
    /\ UNCHANGED <<first_msg, conn, p2b, b2p, handshake, active_calls, hist,
                   closeCalls, popCalls>>
    /\ UNCHANGED <<opus, codec>>

\* The first message (Plivo's start event) is read and parsed; an exception
\* goes to the except and finally blocks of bridge_websocket.
bridge_websocket_first(s) ==
    /\ impl[s] = "orch" /\ hpc[s] = "first"
    /\ \/ /\ plivo_ws[s] = "open"
          /\ \E m \in FirstMsgs :
               /\ first_msg' = [first_msg EXCEPT ![s] = m]
               /\ IF m = "malformed"
                  THEN /\ hpc' = [hpc EXCEPT ![s] = "finally"]
                       /\ UNCHANGED call_id
                  ELSE /\ call_id' = [call_id EXCEPT ![s] = CallIdOf(m)]
                       /\ hpc' = [hpc EXCEPT ![s] = "connect"]
       \/ /\ plivo_ws[s] # "open"
          /\ hpc' = [hpc EXCEPT ![s] = "finally"]
          /\ UNCHANGED <<call_id, first_msg>>
    /\ UNCHANGED <<impl, running, conn, p2b, b2p, handshake, active_calls,
                   hist, closeCalls, popCalls>>
    /\ UNCHANGED <<opus, codec>>

\* A connect that starts the pumps without awaiting the backend's first
\* message.
bridge_websocket_connect_nowait(s) ==
    /\ impl[s] = "orch" /\ hpc[s] = "connect"
    /\ persona_ws' = [persona_ws EXCEPT ![s] = "open"]
    /\ hpc' = [hpc EXCEPT ![s] = "gather"]
    /\ p2b' = [p2b EXCEPT ![s] = "recv"]
    /\ b2p' = [b2p EXCEPT ![s] = "recv"]
    /\ UNCHANGED <<impl, call_id, first_msg, running, plivo_ws, handshake,
                   active_calls, hist, closeCalls, popCalls>>
    /\ UNCHANGED <<opus, codec>>

\* persona_ws = await websockets.connect(...)
bridge_websocket_connect(s) ==
    /\ impl[s] = "orch" /\ hpc[s] = "connect"
    /\ \/ /\ persona_ws' = [persona_ws EXCEPT ![s] = "open"]
          /\ hpc' = [hpc EXCEPT ![s] = "handshake"]
       \/ /\ hpc' = [hpc EXCEPT ![s] = "finally"]
          /\ UNCHANGED persona_ws
    /\ UNCHANGED <<impl, call_id, first_msg, running, plivo_ws, p2b, b2p,
                   handshake, active_calls, hist, closeCalls, popCalls>>
    /\ UNCHANGED <<opus, codec>>

\* handshake == b"\x00" is logged as OK, anything else as a warning.
HandshakeCheck(m) == IF m = "x00" THEN "ok" ELSE "unexpected"

\* handshake = await persona_ws.recv() and the check of it, which only logs:
\* whatever the message was, asyncio.gather starts the two pumps. A backend
\* that closed instead raises to the except block.
bridge_websocket_handshake(s) ==
    /\ impl[s] = "orch" /\ hpc[s] = "handshake"
    /\ \/ /\ persona_ws[s] = "open"
          /\ \E m \in HandshakeMsgs :
               /\ handshake' = [handshake EXCEPT ![s] = HandshakeCheck(m)]
               /\ hpc' = [hpc EXCEPT ![s] = "gather"]
               /\ p2b' = [p2b EXCEPT ![s] = "recv"]
               /\ b2p' = [b2p EXCEPT ![s] = "recv"]
       \/ /\ persona_ws[s] # "open"
          /\ hpc' = [hpc EXCEPT ![s] = "finally"]
          /\ UNCHANGED <<handshake, p2b, b2p>>
    /\ UNCHANGED <<impl, call_id, first_msg, running, conn, active_calls,
                   hist, closeCalls, popCalls>>
    /\ UNCHANGED <<opus, codec>>

\* plivo_to_persona, one pass of "while running" with a message. The flag is
\* tested before the receive only. Every exception of the body (a decode
\* error, a failed send) is caught outside the loop: it clears running and
\* ends the pump. The Opus writer is given the samples and may hold them back
\* (read_bytes returns nothing) or return encoded bytes; a send awaits, so
\* the next test of the flag is in plivo_to_persona_loop.
plivo_to_persona(s) ==
    /\ impl[s] = "orch" /\ p2b[s] = "recv"
    /\ plivo_ws[s] = "open" /\ MayDeliver
    /\ \E k \in TelKinds :
         /\ recvT' = [recvT EXCEPT ![s] = Append(@, k)]
         /\ CASE k = "media" ->
                   \E opus_bytes \in BOOLEAN :
                     /\ opus_writer' = [opus_writer EXCEPT ![s] = ~opus_bytes]
                     /\ IF opus_bytes /\ PersonaOpen(s)
                        THEN \/ /\ toPersona' = [toPersona EXCEPT ![s] =
                                                    Send(@, Len(recvT'[s]))]
                                /\ wire' = [wire EXCEPT ![s] =
                                               Send(@, orch_frame)]
                                /\ p2b' = [p2b EXCEPT ![s] = "loop"]
                                /\ UNCHANGED <<running, persona_ws>>
                             \/ /\ persona_ws' =
                                       [persona_ws EXCEPT ![s] = "closedErr"]
                                /\ running' = [running EXCEPT ![s] = FALSE]
                                /\ p2b' = [p2b EXCEPT ![s] = "except_send"]
                                /\ UNCHANGED <<toPersona, wire>>
                        ELSE /\ p2b' = [p2b EXCEPT ![s] =
                                          IF running[s] THEN "recv"
                                          ELSE "while_end"]
                             /\ UNCHANGED <<running, persona_ws, toPersona,
                                            wire>>
              [] StopEvent(k) ->
                   /\ running' = [running EXCEPT ![s] = FALSE]
                   /\ p2b' = [p2b EXCEPT ![s] = "break_stop"]
                   /\ UNCHANGED <<persona_ws, toPersona, wire, opus_writer>>
              [] k \in {"badmedia", "badjson"} ->
                   /\ running' = [running EXCEPT ![s] = FALSE]
                   /\ p2b' = [p2b EXCEPT ![s] = "except_frame"]
                   /\ UNCHANGED <<persona_ws, toPersona, wire, opus_writer>>
              [] OTHER ->
                   /\ p2b' = [p2b EXCEPT ![s] =
                                IF running[s] THEN "recv" ELSE "while_end"]
                   /\ UNCHANGED <<running, persona_ws, toPersona, wire,
                                  opus_writer>>
    /\ UNCHANGED <<impl, hpc, call_id, first_msg, plivo_ws, b2p, handshake,
                   active_calls, recvB, toPlivo, closeCalls, popCalls>>
    /\ UNCHANGED <<opus_reader, codec>>

\* plivo_to_persona, the test of "while running" after a send has returned.
plivo_to_persona_loop(s) ==
    /\ impl[s] = "orch" /\ p2b[s] = "loop"
    /\ p2b' = [p2b EXCEPT ![s] = IF running[s] THEN "recv" ELSE "while_end"]
    /\ UNCHANGED <<impl, hpc, call_id, first_msg, running, conn, b2p,
                   handshake, active_calls, hist, closeCalls, popCalls>>
    /\ UNCHANGED <<opus, codec>>

\* plivo_to_persona, receive_text on a telephony connection that has gone:
\* WebSocketDisconnect is caught, running is cleared, the pump ends.
plivo_to_persona_closed(s) ==
    /\ impl[s] = "orch" /\ p2b[s] = "recv"
    /\ plivo_ws[s] # "open"
    /\ running' = [running EXCEPT ![s] = FALSE]
    /\ p2b' = [p2b EXCEPT ![s] = "except_closed"]
    /\ UNCHANGED <<impl, hpc, call_id, first_msg, conn, b2p, handshake,
                   active_calls, hist, closeCalls, popCalls>>
    /\ UNCHANGED <<opus, codec>>

\* The first byte of a non-empty bytes message: message[0:1].
prefix(k) ==
    CASE k \in {"audio", "bad", "x01"} -> "x01"
      [] k = "x00" -> "x00"
      [] OTHER -> "other"

\* len(message) > 1
LongerThanOne(k) == k \in {"audio", "bad", "prefix"}

\* A dispatch without the test of len(message) > 1: every message that starts
\* with 0x01 goes to the Opus reader.
persona_dispatch_any_length(k) ==
    IF k \in {"text", "empty"} THEN "skip"
    ELSE IF prefix(k) = "x01" THEN "decode"
    ELSE IF prefix(k) = "x00" THEN "control"
    ELSE "other"

\* The branch persona_to_plivo takes for a message: "decode" for 0x01 and a
\* payload, "control" for 0x00 and "other" for another prefix (both only
\* logged), "skip" for what is not bytes or is empty.
persona_dispatch(k) ==
    IF k \in {"text", "empty"} THEN "skip"
    ELSE IF prefix(k) = "x01" /\ LongerThanOne(k) THEN "decode"
    ELSE IF prefix(k) = "x00" THEN "control"
    ELSE "other"

\* persona_to_plivo, one iteration of "async for message in persona_ws" with
\* a message. The Opus reader may return PCM or nothing yet. Every exception
\* (a frame the reader rejects, a failed send_text) is caught outside the
\* loop: it clears running and ends the pump.
persona_to_plivo(s) ==
    /\ impl[s] = "orch" /\ b2p[s] = "recv"
    /\ persona_ws[s] = "open" /\ MayDeliver
    /\ \E k \in BackendKinds :
         /\ recvB' = [recvB EXCEPT ![s] = Append(@, k)]
         /\ IF ~running[s]
            THEN /\ b2p' = [b2p EXCEPT ![s] = "break_flag"]
                 /\ UNCHANGED <<running, toPlivo, opus_reader>>
            ELSE CASE persona_dispatch(k) = "decode" /\ k # "bad" ->
                        \E pcm_float \in BOOLEAN :
                          /\ opus_reader' =
                                [opus_reader EXCEPT ![s] = ~pcm_float]
                          /\ IF ~pcm_float
                             THEN UNCHANGED <<b2p, running, toPlivo>>
                             ELSE IF plivo_ws[s] = "open"
                             THEN /\ toPlivo' = [toPlivo EXCEPT ![s] =
                                                    Send(@, Len(recvB'[s]))]
                                  /\ UNCHANGED <<b2p, running>>
                             ELSE /\ running' = [running EXCEPT ![s] = FALSE]
                                  /\ b2p' = [b2p EXCEPT ![s] = "except_send"]
                                  /\ UNCHANGED toPlivo
                   [] persona_dispatch(k) = "decode" /\ k = "bad" ->
                        /\ running' = [running EXCEPT ![s] = FALSE]
                        /\ b2p' = [b2p EXCEPT ![s] = "except_frame"]
                        /\ UNCHANGED <<toPlivo, opus_reader>>
                   [] OTHER ->
                        UNCHANGED <<b2p, running, toPlivo, opus_reader>>
    /\ UNCHANGED <<impl, hpc, call_id, first_msg, conn, p2b, handshake,
                   active_calls, recvT, toPersona, wire, closeCalls,
                   popCalls>>
    /\ UNCHANGED <<opus_writer, codec>>

\* persona_to_plivo over a closed backend connection: a normal closure ends
\* the "async for" and the pump returns with running as it was; an abnormal
\* one raises ConnectionClosedError, which is caught and clears running.
persona_to_plivo_closed(s) ==
    /\ impl[s] = "orch" /\ b2p[s] = "recv"
    /\ persona_ws[s] \notin {None, "open"}
    /\ running' = [running EXCEPT ![s] =
                      IF persona_ws[s] = "closedErr" THEN FALSE ELSE @]
    /\ b2p' = [b2p EXCEPT ![s] =
                  IF persona_ws[s] = "closedErr" THEN "except_closed" ELSE "eof"]
    /\ UNCHANGED <<impl, hpc, call_id, first_msg, conn, p2b, handshake,
                   active_calls, hist, closeCalls, popCalls>>
    /\ UNCHANGED <<opus, codec>>

\* bridge_websocket's finally, reached when the gather has returned (both
\* pumps catch every exception) or an earlier step raised.
bridge_websocket_finally(s) ==
    /\ impl[s] = "orch"
    /\ \/ hpc[s] = "finally"
       \/ hpc[s] = "gather" /\ p2b[s] \in Returned /\ b2p[s] \in Returned
    /\ IF FinallyCloses(persona_ws[s])
       THEN /\ persona_ws' = [persona_ws EXCEPT ![s] = "closed"]
            /\ closeCalls' = [closeCalls EXCEPT ![s] = @ + 1]
       ELSE UNCHANGED <<persona_ws, closeCalls>>
    /\ hpc' = [hpc EXCEPT ![s] = "done"]
    /\ UNCHANGED <<impl, call_id, first_msg, running, plivo_ws, p2b, b2p,
                   handshake, active_calls, hist, popCalls>>
    /\ UNCHANGED <<opus, codec>>

----------------------------------------------------------------------------
(* The peers *)

\* The carrier closes the telephony stream, normally or not.
plivo_disconnect(s) ==
    /\ hpc[s] \notin {"idle", "done"} /\ plivo_ws[s] = "open"
    /\ \E how \in {"closedOK", "closedErr"} :
         plivo_ws' = [plivo_ws EXCEPT ![s] = how]
    /\ UNCHANGED <<impl, hpc, call_id, first_msg, running, persona_ws, p2b,
                   b2p, handshake, active_calls, hist, closeCalls, popCalls>>
    /\ UNCHANGED <<opus, codec>>

\* The backend closes its connection, normally or not.
persona_disconnect(s) ==
    /\ persona_ws[s] = "open"
    /\ \E how \in {"closedOK", "closedErr"} :
         persona_ws' = [persona_ws EXCEPT ![s] = how]
    /\ UNCHANGED <<impl, hpc, call_id, first_msg, running, plivo_ws, p2b, b2p,
                   handshake, active_calls, hist, closeCalls, popCalls>>
    /\ UNCHANGED <<opus, codec>>

----------------------------------------------------------------------------

\* What the program does on its own, without a new input from a peer.
Step(s) ==
    \/ handle_finally(s)
    \/ bridge_handler_finally(s)
    \/ CallBridge_plivo_to_persona_closed(s)
    \/ CallBridge_persona_to_plivo_closed(s)
    \/ plivo_to_persona_loop(s)
    \/ plivo_to_persona_closed(s)
    \/ persona_to_plivo_closed(s)
    \/ bridge_websocket_finally(s)

\* The steps of bridge.py for stream s.
BridgeNext(s) ==
    \/ start_bridge(s)
    \/ bridge_handler(s)
    \/ handle_connect(s)
    \/ CallBridge_plivo_to_persona(s)
    \/ CallBridge_plivo_to_persona_closed(s)
    \/ CallBridge_persona_to_plivo(s)
    \/ CallBridge_persona_to_plivo_closed(s)
    \/ handle_finally(s)
    \/ bridge_handler_finally(s)

\* The steps of orchestrator.py for stream s.
OrchNext(s) ==
    \/ bridge_websocket(s)
    \/ bridge_websocket_first(s)
    \/ bridge_websocket_connect(s)
    \/ bridge_websocket_handshake(s)
    \/ plivo_to_persona(s)
    \/ plivo_to_persona_loop(s)
    \/ plivo_to_persona_closed(s)
    \/ persona_to_plivo(s)
    \/ persona_to_plivo_closed(s)
    \/ bridge_websocket_finally(s)

\* The steps of the peers of stream s.
PeerNext(s) ==
    \/ plivo_disconnect(s)
    \/ persona_disconnect(s)

\* One call, served by either service: the sessions of a service share
\* nothing but the registry of bridge.py.
OneCall == {"s1"}

Next == \E s \in OneCall : BridgeNext(s) \/ OrchNext(s) \/ PeerNext(s)

Spec == Init /\ [][Next]_vars

\* The same, with every step the program takes on its own weakly fair. No
\* fairness is put on the peers: they need not send or close.
FairSpec == Spec /\ \A s \in OneCall : WF_vars(Step(s))

\* Bound: messages delivered to the pumps with concurrent calls.
MaxRegistryMsgs == 1

\* Concurrent calls into bridge.py, which share active_calls.
RegistryNext ==
    \E s \in Sessions :
        \/ start_bridge(s)
        \/ bridge_handler(s)
        \/ handle_connect(s)
        \/ Delivered < MaxRegistryMsgs /\ CallBridge_plivo_to_persona(s)
        \/ CallBridge_plivo_to_persona_closed(s)
        \/ Delivered < MaxRegistryMsgs /\ CallBridge_persona_to_plivo(s)
        \/ CallBridge_persona_to_plivo_closed(s)
        \/ handle_finally(s)
        \/ bridge_handler_finally(s)
        \/ PeerNext(s)

RegistrySpec == Init /\ [][RegistryNext]_vars

----------------------------------------------------------------------------
(* Audio conversion: the mu-law codec and the resamplers (bridge.py; the   *)
(* codec is repeated word for word in orchestrator.py)                     *)

\* Bound: the longest frame, in samples, given to a resampler.
MaxFrameLen == 12

\* np.int16
Int16 == -32768 .. 32767

\* MULAW_MAX = 0x1FFF
MULAW_MAX == 8191

\* MULAW_BIAS = 0x84
MULAW_BIAS == 132

Abs(n) == IF n < 0 THEN -n ELSE n
Min(a, b) == IF a < b THEN a ELSE b

\* n >> k and n << k of a non-negative n, and bit k of n.
Shr(n, k) == n \div (2 ^ k)
Shl(n, k) == n * (2 ^ k)
Bit(n, k) == Shr(n, k) % 2

\* MULAW_DECODE_TABLE[i]. val = ~i, of which the code uses the low 8 bits.
MULAW_DECODE_TABLE ==
    [i \in 0 .. 255 |->
        LET val == 255 - i
            sign == Bit(val, 7)
            exponent == Shr(val, 4) % 8
            mantissa == val % 16
            sample == Shl(Shl(mantissa, 3) + MULAW_BIAS, exponent) - MULAW_BIAS
        IN  IF sign # 0 THEN -sample ELSE sample]

\* mulaw_decode of one byte: the table lookup.
mulaw_decode(b) == MULAW_DECODE_TABLE[b]

\* "for exp in range(7, 0, -1)": each pass sets exponent to exp where bit
\* exp + 3 of the sample is set, and so overwrites what a higher exp set.
RECURSIVE exponent_loop(_, _, _)
exponent_loop(samples, exp, exponent) ==
    IF exp < 1 THEN exponent
    ELSE exponent_loop(samples, exp - 1,
                       IF Bit(samples, exp + 3) # 0 THEN exp ELSE exponent)

\* mulaw_encode of one sample. sign, exponent << 4 and mantissa are disjoint
\* bit fields, so their "or" is their sum and ~v & 0xFF is 255 - v.
mulaw_encode(x) ==
    LET sign == IF x < 0 THEN 128 ELSE 0
        samples == Min(Abs(x), MULAW_MAX) + MULAW_BIAS
        exponent == exponent_loop(samples, 7, 0)
        mantissa == Shr(samples, exponent + 3) % 16
    IN  255 - (sign + Shl(exponent, 4) + mantissa)

\* The length of scipy.signal.resample_poly(x, up, down) for len(x) = n:
\* n * up // down, plus one when the division leaves a remainder.
resample_poly(n, up, down) ==
    LET n_out == n * up
    IN  (n_out \div down) + (IF n_out % down # 0 THEN 1 ELSE 0)

\* The length of resample_8k_to_24k(audio_8k) for len(audio_8k) = n.
resample_8k_to_24k(n) == resample_poly(n, 3, 1)

\* The length of resample_24k_to_8k(audio_24k) for len(audio_24k) = n.
resample_24k_to_8k(n) == resample_poly(n, 1, 3)

\* What a conversion is given: one 16-bit sample, or a frame of n samples.
CodecInputs ==
    {[kind |-> "sample", v |-> x] : x \in Int16}
       \cup {[kind |-> "frame", v |-> n] : n \in 1 .. MaxFrameLen}

\* A conversion about to be applied to any input.
CodecInit ==
    /\ NoSession
    /\ cpc = "in"
    /\ codec_in \in CodecInputs
    /\ mulaw_byte = None
    /\ codec_out = None

\* mulaw_encode is applied to the sample.
apply_mulaw_encode ==
    /\ cpc = "in" /\ codec_in.kind = "sample"
    /\ mulaw_byte' = mulaw_encode(codec_in.v)
    /\ cpc' = "encoded"
    /\ UNCHANGED <<session, codec_in, codec_out>>

\* mulaw_decode is applied to the byte mulaw_encode returned.
apply_mulaw_decode ==
    /\ cpc = "encoded"
    /\ codec_out' = mulaw_decode(mulaw_byte)
    /\ cpc' = "decoded"
    /\ UNCHANGED <<session, codec_in, mulaw_byte>>

\* resample_8k_to_24k is applied to the frame.
apply_resample_8k_to_24k ==
    /\ cpc = "in" /\ codec_in.kind = "frame"
    /\ codec_out' = resample_8k_to_24k(codec_in.v)
    /\ cpc' = "up"
    /\ UNCHANGED <<session, codec_in, mulaw_byte>>

\* resample_24k_to_8k is applied to the frame.
apply_resample_24k_to_8k ==
    /\ cpc = "in" /\ codec_in.kind = "frame"
    /\ codec_out' = resample_24k_to_8k(codec_in.v)
    /\ cpc' = "down"
    /\ UNCHANGED <<session, codec_in, mulaw_byte>>

CodecNext ==
    \/ apply_mulaw_encode
    \/ apply_mulaw_decode
    \/ apply_resample_8k_to_24k
    \/ apply_resample_24k_to_8k

\* The conversions, each applied to every input.
CodecSpec == CodecInit /\ [][CodecNext]_vars

----------------------------------------------------------------------------
(* Properties *)

Last(q) == q[Len(q)]

StrictlyIncreasing(q) == \A i, j \in 1..Len(q) : i < j => q[i] < q[j]

\* The session is CLOSED: its handler is over, its backend connection is
\* closed (or was never opened) and the registry does not hold it.
Closed(s) ==
    /\ hpc[s] = "done"
    /\ persona_ws[s] \in {None, "closed"}
    /\ \A c \in CallIds : active_calls[c] # s

\* The session is registered and neither over nor in teardown.
Live(s) == hpc[s] \in {"connect", "gather"}

\* C1. bridge.py: once the telephony pump of an active session has received
\* a stop event, the session eventually is CLOSED, whatever the backend does
\* (it need not send or close).
C1_StopLeadsToClosed ==
    \A s \in Sessions :
        (impl[s] = "bridge" /\ p2b[s] = "break_stop") ~> Closed(s)

\* The ways a pump ends on a transport-level disconnect or error.
DisconnectEnds == {"eof", "except_closed", "except_send", "raised"}

\* C2. Once a pump has ended on a disconnect or transport error, the running
\* flag is false, or both pumps are over and teardown is next.
C2_DisconnectClosesSession ==
    \A s \in Sessions :
        (hpc[s] = "gather"
           /\ (p2b[s] \in DisconnectEnds \/ b2p[s] \in DisconnectEnds))
        => (~running[s] \/ GatherOver(s))

\* C3. Teardown happens once: close() of the backend connection and the pop
\* of the registry are each called at most once for a session; when the
\* handler is over the connection, if one was opened, has been closed exactly
\* once, and a session that bridge_handler registered has been popped exactly
\* once and is no longer in the registry.
C3_TeardownOnce ==
    \A s \in Sessions :
        /\ closeCalls[s] <= 1
        /\ popCalls[s] <= 1
        /\ hpc[s] = "done" =>
              /\ closeCalls[s] = (IF persona_ws[s] = None THEN 0 ELSE 1)
              /\ persona_ws[s] \in {None, "closed"}
        /\ (hpc[s] = "done" /\ impl[s] = "bridge" /\ call_id[s] # None) =>
              /\ popCalls[s] = 1
              /\ active_calls[call_id[s]] # s

\* C3 witness: a session torn down after both pumps ended on a failure of
\* their connection, the telephony pump by an exception that escaped it.
C3_Witness ==
    \E s \in Sessions :
        /\ hpc[s] = "done" /\ p2b[s] = "raised" /\ b2p[s] = "except_closed"
        /\ closeCalls[s] = 1 /\ popCalls[s] = 1

\* A step in which the handler of s fails or tears down.
Teardown(s) ==
    /\ hpc[s] \in {"connect", "gather", "closing"}
    /\ hpc'[s] \in {"closing", "done"}
    /\ hpc'[s] # hpc[s]

\* C4. The failure or teardown of one session leaves every other live session
\* alone: its registry entry, its connections and what was sent on them.
C4_SessionIsolation ==
    [][\A s \in Sessions : \A t \in Sessions \ {s} :
          (Teardown(s) /\ Live(t)) =>
             /\ active_calls[call_id[t]] = t => active_calls'[call_id[t]] = t
             /\ persona_ws'[t] = persona_ws[t]
             /\ plivo_ws'[t] = plivo_ws[t]
             /\ toPersona'[t] = toPersona[t]
             /\ toPlivo'[t] = toPlivo[t]]_vars

\* C5. A stream that arrives with a call id the registry already holds leaves
\* the entry of that id as it is.
C5_DuplicateIdLeavesExisting ==
    [][\A s \in Sessions : \A c \in CallIds :
          (hpc[s] = "first" /\ hpc'[s] = "connect" /\ call_id'[s] = c
             /\ active_calls[c] # None)
          => active_calls'[c] = active_calls[c]]_vars

\* C6. orchestrator.py: a first backend message other than the byte 0x00 is
\* fatal: no pump is started and nothing is forwarded; after 0x00 the pumps
\* are started.
C6_BadHandshakeIsFatal ==
    \A s \in Sessions :
        impl[s] = "orch" =>
           /\ handshake[s] = "unexpected" =>
                 /\ p2b[s] = "idle" /\ b2p[s] = "idle"
                 /\ toPersona[s] = <<>> /\ toPlivo[s] = <<>>
           /\ handshake[s] = "ok" => p2b[s] # "idle" /\ b2p[s] # "idle"

\* C7. orchestrator.py: nothing is sent to the backend before the backend's
\* first message has been received.
C7_NoAudioBeforeHandshake ==
    \A s \in Sessions :
        (impl[s] = "orch" /\ toPersona[s] # <<>>) => handshake[s] # None

\* C7 witness: bridge_websocket has sent audio to the backend.
C7_Witness ==
    \E s \in Sessions :
        impl[s] = "orch" /\ toPersona[s] # <<>> /\ handshake[s] = "ok"

\* C8. In each direction what is sent is in receipt order: the sends to the
\* backend are media events of the telephony stream, the playAudio sends are
\* audio messages of the backend, each in strictly increasing order of
\* receipt.
C8_ForwardedInOrder ==
    \A s \in Sessions :
        /\ StrictlyIncreasing(toPersona[s])
        /\ StrictlyIncreasing(toPlivo[s])
        /\ \A i \in 1..Len(toPersona[s]) :
              /\ toPersona[s][i] \in 1..Len(recvT[s])
              /\ recvT[s][toPersona[s][i]] = "media"
        /\ \A i \in 1..Len(toPlivo[s]) :
              /\ toPlivo[s][i] \in 1..Len(recvB[s])
              /\ recvB[s][toPlivo[s][i]] = "audio"

\* C8 witness: two media events forwarded to the backend around an event
\* that is not forwarded.
C8_Witness ==
    \E s \in Sessions : toPersona[s] = <<1, 3>>

\* C9. A frame that fails to decode is dropped and nothing else: the pump
\* that received it is back at its receive, running stays true and nothing
\* is sent for the frame.
C9_FrameErrorDropsOnlyFrame ==
    [][\A s \in Sessions :
          /\ (running[s] /\ Len(recvT'[s]) = Len(recvT[s]) + 1
                /\ Last(recvT'[s]) \in {"badmedia", "badjson"})
             => (p2b'[s] = "recv" /\ running'[s]
                   /\ toPersona'[s] = toPersona[s])
          /\ (running[s] /\ Len(recvB'[s]) = Len(recvB[s]) + 1
                /\ Last(recvB'[s]) = "bad")
             => (b2p'[s] = "recv" /\ running'[s]
                   /\ toPlivo'[s] = toPlivo[s])]_vars

\* C10. No pump sends, on either connection, while the running flag of its
\* session is false.
C10_NoSendWhenStopped ==
    [][\A s \in Sessions :
          (toPersona'[s] # toPersona[s] \/ toPlivo'[s] # toPlivo[s])
          => running[s]]_vars

\* The pump at position p has been started and has not ended.
PumpRunning(p) == p \in {"recv", "loop"}

\* C11. A session is destroyed only when both pumps have exited: in the step
\* that closes the backend connection in teardown, and in the step that
\* removes the call id from the registry, neither pump of the session is
\* still running, also when a pump was left by an exception.
C11_DestroyedAfterBothPumps ==
    [][\A s \in Sessions :
          (closeCalls'[s] # closeCalls[s] \/ popCalls'[s] # popCalls[s])
          => (~PumpRunning(p2b[s]) /\ ~PumpRunning(b2p[s]))]_vars

\* C12. The registry entry of a session is never removed before the teardown
\* of that session: in a step that removes from active_calls the entry that
\* refers to session t, the running flag of t is already false and the
\* backend connection of t, if one was opened, is already closed (the pop is
\* the last statement of its step, so the step's final values are those the
\* pop finds).
C12_RemovalAfterTeardown ==
    [][\A t \in Sessions : \A c \in CallIds :
          (active_calls[c] = t /\ active_calls'[c] = None)
          => (~running'[t] /\ persona_ws'[t] \in {None, "closed"})]_vars

\* The connect of s fails in this step.
ConnectFails(s) ==
    hpc[s] = "connect" /\ hpc'[s] # "connect" /\ persona_ws'[s] = None

\* The connect of s has failed and its handler is in or past its teardown.
ConnectFailed(s) ==
    hpc[s] \in {"finally", "done"} /\ call_id[s] # None
       /\ persona_ws[s] = None /\ handshake[s] = None

\* No pump of s was started and nothing was sent for s.
NothingStarted(s) ==
    /\ p2b[s] = "idle" /\ b2p[s] = "idle"
    /\ toPersona[s] = <<>> /\ toPlivo[s] = <<>>

\* C13. When the connection to the backend cannot be established the session
\* goes straight to its teardown: no pump is started, nothing is sent, the
\* connect is not tried again, and bridge_handler has removed the call id
\* from the registry when the handler is over.
C13_ConnectFailureClosesSession ==
    /\ [][\A s \in Sessions :
             /\ ConnectFails(s) => hpc'[s] \in {"finally", "done"}
             /\ ConnectFailed(s) => hpc'[s] \in {"finally", "done"}]_vars
    /\ [](\A s \in Sessions :
             ConnectFailed(s) =>
                /\ NothingStarted(s)
                /\ (impl[s] = "bridge") =>
                      /\ ~running[s]
                      /\ hpc[s] = "done" /\ popCalls[s] = 1
                      /\ active_calls[call_id[s]] # s)

\* C13 witness: a registered session of bridge.py whose connect failed.
C13_Witness ==
    \E s \in Sessions :
        /\ impl[s] = "bridge" /\ ConnectFailed(s)
        /\ call_id[s] = "abc123" /\ popCalls[s] = 1

\* C14. Every message sent to the backend follows the wire convention of the
\* backend: the byte 0x01, then a payload that is not empty.
C14_BackendFramesPrefixed ==
    \A s \in Sessions : \A i \in 1..Len(wire[s]) :
        Len(wire[s][i]) >= 2 /\ wire[s][i][1] = "x01"

\* The exponent band of the codec a sample falls in: the decoded values of
\* exponent e start at (0x84 << e) - 0x84 and are 2 ^ (e + 3) apart.
BandOf(x) ==
    CHOOSE e \in 0 .. 7 :
        /\ Shl(MULAW_BIAS, e) - MULAW_BIAS <= Abs(x)
        /\ e < 7 => Abs(x) < Shl(MULAW_BIAS, e + 1) - MULAW_BIAS

\* One quantization step of the band of x.
QuantStep(x) == 2 ^ (BandOf(x) + 3)

\* C15. Codec round trip: for every 16-bit sample x, mulaw_decode of
\* mulaw_encode of x differs from x by at most one quantization step of the
\* exponent band of x.
C15_RoundTripBounded ==
    cpc = "decoded" =>
        Abs(codec_out - codec_in.v) <= QuantStep(codec_in.v)

\* C16. Resample lengths: a frame of n samples is upsampled to exactly 3n
\* samples and downsampled to exactly floor(n / 3) samples.
C16_ResampleLengthExact ==
    /\ cpc = "up" => codec_out = 3 * codec_in.v
    /\ cpc = "down" => codec_out = codec_in.v \div 3

\* The handler of s has set its running flag: handle in bridge.py (the flag
\* is False from __init__ until then), bridge_websocket at its start.
Started(s) == hpc[s] \notin {"idle", "first"} \/ impl[s] = "orch"

\* C17. A broken bridge is never resumed: a running flag that has become
\* false stays false, and once the handler has returned it stays returned,
\* the backend connection, if one was opened, is closed and stays closed, and
\* nothing more is sent on either connection of the session.
C17_NeverResumed ==
    /\ [][\A s \in Sessions :
             /\ (Started(s) /\ ~running[s]) => ~running'[s]
             /\ hpc[s] = "done" =>
                   /\ hpc'[s] = "done"
                   /\ persona_ws'[s] = persona_ws[s]
                   /\ toPersona'[s] = toPersona[s]
                   /\ wire'[s] = wire[s]
                   /\ toPlivo'[s] = toPlivo[s]]_vars
    /\ [](\A s \in Sessions :
             hpc[s] = "done" => persona_ws[s] \in {None, "closed"})

\* C17 witness: a session that forwarded audio in both directions, was
\* stopped, and whose handler has returned with the connection closed.
C17_Witness ==
    \E s \in Sessions :
        /\ hpc[s] = "done" /\ ~running[s] /\ persona_ws[s] = "closed"
        /\ toPersona[s] # <<>> /\ toPlivo[s] # <<>>
        /\ p2b[s] = "break_stop"

\* Telephony events that are neither media nor stop.
IgnoredEvents == {"start", "dtmf"}

\* C19. A telephony event other than media and stop is ignored by the pump
\* of a running session: nothing is sent to the backend for it, the running
\* flag and the backend connection stay as they are, and the pump is at its
\* receive again.
C19_OtherEventsIgnored ==
    [][\A s \in Sessions :
          (running[s] /\ Len(recvT'[s]) = Len(recvT[s]) + 1
             /\ Last(recvT'[s]) \in IgnoredEvents)
          => /\ toPersona'[s] = toPersona[s]
             /\ wire'[s] = wire[s]
             /\ running'[s]
             /\ persona_ws'[s] = persona_ws[s]
             /\ p2b'[s] = "recv"]_vars

\* C19 witness: a pump has received a dtmf event and then forwarded a media
\* event.
C19_Witness ==
    \E s \in Sessions :
        /\ Len(recvT[s]) >= 2 /\ recvT[s][1] = "dtmf" /\ recvT[s][2] = "media"
        /\ toPersona[s] = <<2>> /\ running[s]

\* Backend messages that are not audio to bridge_websocket.
NotAudio == {"x00", "prefix", "empty", "text", "x01"}

\* C20. orchestrator.py: a backend message that is not audio (0x00, another
\* prefix, empty, text, 0x01 alone) is consumed and ignored by the pump of a
\* running session: no playAudio event is sent for it, the running flag stays
\* as it is and the pump is at its receive again.
C20_NonAudioIgnored ==
    [][\A s \in Sessions :
          (impl[s] = "orch" /\ running[s]
             /\ Len(recvB'[s]) = Len(recvB[s]) + 1
             /\ Last(recvB'[s]) \in NotAudio)
          => /\ toPlivo'[s] = toPlivo[s]
             /\ running'[s]
             /\ b2p'[s] = "recv"]_vars

\* C20 witness: bridge_websocket has received the byte 0x01 alone and then
\* forwarded an audio message.
C20_Witness ==
    \E s \in Sessions :
        /\ impl[s] = "orch" /\ Len(recvB[s]) >= 2
        /\ recvB[s][1] = "x01" /\ recvB[s][2] = "audio"
        /\ toPlivo[s] = <<2>> /\ running[s]

\* The session is active and its backend connection is open.
Active(s) == hpc[s] = "gather" /\ running[s] /\ persona_ws[s] = "open"

Range(q) == {q[i] : i \in 1 .. Len(q)}

\* C18 as it is claimed: while the session is active and the backend
\* connection is open, every telephony media event received is eventually
\* forwarded to the backend, and every backend audio message received is
\* eventually forwarded to telephony, whatever the other side sends.
C18_EveryFrameForwarded ==
    \A s \in Sessions : \A i \in 1 .. MaxMsgs :
        /\ (Active(s) /\ i <= Len(recvT[s]) /\ recvT[s][i] = "media"
              /\ i \notin Range(toPersona[s]))
           ~> (~Active(s) \/ i \in Range(toPersona[s]))
        /\ (Active(s) /\ plivo_ws[s] = "open"
              /\ i <= Len(recvB[s]) /\ recvB[s][i] = "audio"
              /\ i \notin Range(toPlivo[s]))
           ~> (~Active(s) \/ plivo_ws[s] # "open"
                 \/ i \in Range(toPlivo[s]))

\* C18, amended. The two pumps are started together, and each forwards on
\* its own: a telephony media event received while the session is active and
\* the backend connection open is sent to the backend in the step that
\* receives it or, in orchestrator.py, its samples are in the Opus writer; a
\* backend audio message received while the session is active and the
\* telephony connection open is sent to telephony in the step that receives
\* it or, in orchestrator.py, its data is in the Opus reader. Neither step
\* moves the other pump.
C18_PumpsIndependent ==
    /\ [](\A s \in Sessions :
             hpc[s] = "gather" => (p2b[s] # "idle" /\ b2p[s] # "idle"))
    /\ [][\A s \in Sessions :
             /\ (Active(s) /\ persona_ws'[s] = "open"
                   /\ Len(recvT'[s]) = Len(recvT[s]) + 1
                   /\ Last(recvT'[s]) = "media")
                => /\ \/ toPersona'[s] = Append(toPersona[s], Len(recvT'[s]))
                      \/ impl[s] = "orch" /\ opus_writer'[s]
                   /\ b2p'[s] = b2p[s]
             /\ (Active(s) /\ plivo_ws[s] = "open"
                   /\ Len(recvB'[s]) = Len(recvB[s]) + 1
                   /\ Last(recvB'[s]) = "audio")
                => /\ \/ toPlivo'[s] = Append(toPlivo[s], Len(recvB'[s]))
                      \/ impl[s] = "orch" /\ opus_reader'[s]
                   /\ p2b'[s] = p2b[s]]_vars

\* C18 witness: two media events forwarded to the backend while the backend
\* pump is at its receive and the backend has sent nothing.
C18_Witness ==
    \E s \in Sessions :
        /\ Active(s) /\ toPersona[s] = <<1, 2>>
        /\ recvB[s] = <<>> /\ b2p[s] = "recv"


\* A first message that is parsed: a JSON object, with or without start.callId.
Parsed == {"start_abc123", "start_noid"}

\* C21: the session of a stream is identified by the callId of the start
\* object of the stream's first message, or by "unknown" when the message has
\* none, in both services, and no backend connection is opened and no pump
\* started before that message has been read. In bridge_handler the step that
\* reads the first message leaves the session registered in active_calls
\* under that id, with the backend connection not opened and both pumps not
\* started.
C21_IdentifiedAndRegisteredFirst ==
    /\ [](\A s \in Sessions :
             /\ first_msg[s] = "start_abc123" => call_id[s] = "abc123"
             /\ first_msg[s] = "start_noid" => call_id[s] = "unknown"
             /\ (persona_ws[s] # None \/ p2b[s] # "idle" \/ b2p[s] # "idle")
                   => first_msg[s] \in Parsed)
    /\ [][\A s \in Sessions :
             (impl[s] = "bridge" /\ first_msg[s] = None
                /\ first_msg'[s] \in Parsed)
             => /\ active_calls'[call_id'[s]] = s
                /\ persona_ws'[s] = None
                /\ p2b'[s] = "idle" /\ b2p'[s] = "idle"]_vars

\* A bridge.py session named by its start event is in the registry under that
\* id while its backend connection is open and both pumps run.
C21_Witness ==
    \E s \in Sessions :
        /\ impl[s] = "bridge" /\ first_msg[s] = "start_abc123"
        /\ call_id[s] = "abc123" /\ active_calls["abc123"] = s
        /\ persona_ws[s] = "open"
        /\ p2b[s] = "recv" /\ b2p[s] = "recv"

\* A telephony media event, with or without a payload that decodes.
MediaEvents == {"media", "badmedia"}

\* A backend message that is bytes and not empty.
NonEmptyBinary == BackendKinds \ {"empty", "text"}

\* The positions of the messages of q whose kind is in K.
Positions(q, K) == {i \in 1 .. Len(q) : q[i] \in K}

\* No message of a sequence of sends occurs twice in it.
OnceEach(sent) == \A i, j \in 1 .. Len(sent) : sent[i] = sent[j] => i = j

\* C22: conservation. In every reachable state, for each session, the
\* playAudio events sent to telephony are no more than the non-empty binary
\* messages its pump received from the backend, the messages sent to the
\* backend are no more than the media events its pump received from telephony
\* (the first message of the stream is read by the handler, not by the pump),
\* and no received frame is forwarded twice: every send forwards a received
\* message of that kind and no two sends forward the same one.
C22_Conservation ==
    \A s \in Sessions :
        /\ Len(toPlivo[s]) <= Cardinality(Positions(recvB[s], NonEmptyBinary))
        /\ Len(toPersona[s]) <= Cardinality(Positions(recvT[s], MediaEvents))
        /\ Len(wire[s]) = Len(toPersona[s])
        /\ OnceEach(toPlivo[s]) /\ OnceEach(toPersona[s])
        /\ Range(toPlivo[s]) \subseteq Positions(recvB[s], NonEmptyBinary)
        /\ Range(toPersona[s]) \subseteq Positions(recvT[s], MediaEvents)

\* C22 witness: a session has forwarded a frame in each direction and has
\* received, in one direction, a message it did not forward.
C22_Witness ==
    \E s \in Sessions :
        /\ Len(toPlivo[s]) = 1 /\ Len(toPersona[s]) = 1
        /\ Len(recvT[s]) + Len(recvB[s]) = 3
====
